---- MODULE Spec2Model ----
(***************************************************************************)
(* Model of the mattermost-load-test concurrency core:                     *)
(*   - loadtest entity runners: runEntity, doStatusPolling and             *)
(*     websocketListen sharing EntityConfig.StopWaitGroup / StopChannel    *)
(*   - kubernetes Cluster.Loadtest: discovery, bulkLoad, staggered fan-out *)
(* Goroutines are modelled as program counters; every step between two     *)
(* synchronisation points or external calls is one action.                 *)
(***************************************************************************)
EXTENDS Integers, Sequences, FiniteSets, TLC

VARIABLES
    \* ---- kubernetes/cluster_loadtest.go ----
    lpc,            \* position of the goroutine executing Cluster.Loadtest
    loadtestPods,   \* result of GetLoadtestInstancesAddrs: sequence of pod ids
    appPods,        \* result of GetAppInstancesAddrs: sequence of pod ids
    err,            \* Loadtest's local err variable
    ret,            \* value returned by Loadtest ("none" while running)
    bulkCalls,      \* number of calls of bulkLoad
    bulkLog,        \* commands run by bulkLoad: <<[step, pod, ok]>>
    wg,             \* the sync.WaitGroup counter of Loadtest
    wgAdded,        \* whether wg.Add(len(loadtestPods)) has executed
    i,              \* the range loop's index variable, shared by the closures
    workers,        \* per pod: the goroutine started by the loop
    clock,          \* seconds elapsed since Loadtest entered its launch loop
    sleepStart,     \* clock value at which the time.Sleep in progress began
    launchedAt,     \* per pod: clock value of its go statement, -1 before it
    \* ---- loadtest entity runners ----
    tasks,          \* per runner kind: the sequence of goroutines started so far
    StopWaitGroup,  \* counter of EntityConfig.StopWaitGroup
    StopChannel,    \* "open" or "closed"
    waiter,         \* a goroutine blocked in StopWaitGroup.Wait(): "waiting",
                    \* "woken" (its semaphore released), "released" (Wait
                    \* returned) or "panicked" (Wait panicked)
    EntityActions,  \* weights of ec.EntityActions
    wsPc,           \* position of the websocketListen goroutine
    WebSocketClient,\* "nil" or "client"
    websocketRetryCount,
    EventChannel,   \* [closed, pending] of WebSocketClient.EventChannel
    ListenError,    \* WebSocketClient.ListenError: "nil" or "err"
    sleepFor,       \* argument (seconds) of the time.Sleep in progress, -1 if none
    connects,       \* history of Connect calls: <<[delay, count, ok, episode]>>
    episode,        \* number of times the event channel was seen closed
    cmdlog,         \* messages logged by websocketListen
    \* ---- the timer schedule of one runEntity goroutine ----
    spc,            \* position of runEntity with respect to its timer
    ActionRate,     \* ec.ActionRate, a time.Duration (nanoseconds)
    actionRateMaxVarianceMilliseconds,
    now,            \* time.Now() read at line 125, in nanoseconds since the epoch
    offset,         \* the value returned by rand.Int63n(int64(ec.ActionRate))
    start,          \* the instant of the first firing
    delay           \* the duration the timer was last armed with

timeVars == <<clock, sleepStart, launchedAt>>
clusterVars == <<lpc, loadtestPods, appPods, err, ret, bulkCalls, bulkLog, wg,
                 wgAdded, i, workers, timeVars>>
runnerVars == <<tasks, EntityActions>>
sharedVars == <<StopWaitGroup, StopChannel, waiter>>
wsVars == <<wsPc, WebSocketClient, websocketRetryCount, EventChannel, ListenError,
            sleepFor, connects, episode, cmdlog>>
scheduleVars == <<spc, ActionRate, actionRateMaxVarianceMilliseconds, now, offset,
                  start, delay>>
vars == <<clusterVars, runnerVars, sharedVars, wsVars, scheduleVars>>

\* ---- bounds of the model ----
MaxWorkers == 3
MaxTargets == 2
MaxCrashes == 2
MaxDrops == 2
MaxPending == 1
MaxEntityCrashes == 1
MaxEntityDrops == 1
MaxClock == 30
MaxRate == 3
MaxVariance == 4
MaxNow == 7
TickSeconds == 5

\* ---- program constants ----
BulkSteps == 4
StaggerSeconds == 10
MaxRetries == 5

Nil == "nil"

\* github.com/pkg/errors Wrap: annotates err with msg; Wrap(nil, msg) is nil.
Wrap(e, msg) == IF e = Nil THEN Nil ELSE msg

Pods(n) == [p \in 1..n |-> p]

NoWorker == [pc |-> "none", launches |-> 0, mirror |-> "unset", runs |-> 0,
             err |-> Nil, dones |-> 0]

InitClusterVars ==
    /\ lpc = "GetLoadtestInstancesAddrs"
    /\ loadtestPods = <<>>
    /\ appPods = <<>>
    /\ err = Nil
    /\ ret = "none"
    /\ bulkCalls = 0
    /\ bulkLog = <<>>
    /\ wg = 0
    /\ wgAdded = FALSE
    /\ i = 0
    /\ workers = [p \in 1..MaxWorkers |-> NoWorker]
    /\ clock = 0
    /\ sleepStart = 0
    /\ launchedAt = [p \in 1..MaxWorkers |-> -1]

InitRunnerIdle ==
    /\ tasks = [k \in {"runEntity", "doStatusPolling"} |-> <<>>]
    /\ EntityActions = <<>>

InitSharedIdle ==
    /\ StopWaitGroup = 0
    /\ StopChannel = "open"
    /\ waiter = "idle"

InitWSIdle ==
    /\ wsPc = "unlaunched"
    /\ WebSocketClient = Nil
    /\ websocketRetryCount = 0
    /\ EventChannel = [closed |-> FALSE, pending |-> 0]
    /\ ListenError = Nil
    /\ sleepFor = -1
    /\ connects = <<>>
    /\ episode = 0
    /\ cmdlog = <<>>

InitScheduleIdle ==
    /\ spc = "idle"
    /\ ActionRate = 1
    /\ actionRateMaxVarianceMilliseconds = 0
    /\ now = 0
    /\ offset = 0
    /\ start = 0
    /\ delay = 0

(***************************************************************************)
(* Cluster.Loadtest                                                        *)
(***************************************************************************)

\* Line 70 / 75: the guard of the two discovery checks.
DiscoveryFailed(e, pods) == e # Nil \/ Len(pods) <= 0

\* Loadtest lines 69-72: pods and e are what GetLoadtestInstancesAddrs returned.
GetLoadtestInstancesAddrs(n, e) ==
    /\ lpc = "GetLoadtestInstancesAddrs"
    /\ loadtestPods' = Pods(n)
    /\ err' = e
    /\ IF DiscoveryFailed(e, Pods(n))
         THEN /\ ret' = Wrap(e, "unable to get loadtest pods")
              /\ lpc' = "returned"
         ELSE /\ lpc' = "GetAppInstancesAddrs"
              /\ UNCHANGED ret
    /\ UNCHANGED <<appPods, bulkCalls, bulkLog, wg, wgAdded, i, workers>>
    /\ UNCHANGED <<runnerVars, sharedVars, wsVars, timeVars, scheduleVars>>

\* Loadtest lines 74-77, then the call of bulkLoad on line 79.
GetAppInstancesAddrs(n, e) ==
    /\ lpc = "GetAppInstancesAddrs"
    /\ appPods' = Pods(n)
    /\ err' = e
    /\ IF DiscoveryFailed(e, Pods(n))
         THEN /\ ret' = Wrap(e, "unable to get app pods")
              /\ lpc' = "returned"
              /\ UNCHANGED bulkCalls
         ELSE /\ lpc' = "bulkLoad1"
              /\ bulkCalls' = bulkCalls + 1
              /\ UNCHANGED ret
    /\ UNCHANGED <<loadtestPods, bulkLog, wg, wgAdded, i, workers>>
    /\ UNCHANGED <<runnerVars, sharedVars, wsVars, timeVars, scheduleVars>>

\* The pod each bulkLoad command addresses: steps 1, 2 the loadtestPod
\* argument (loadtestPods[0]), steps 3, 4 the appPod argument (appPods[0]).
BulkPod_LastPods(step) ==
    IF step <= 2 THEN [kind |-> "loadtest", pod |-> loadtestPods[Len(loadtestPods)]]
                 ELSE [kind |-> "app", pod |-> appPods[Len(appPods)]]

BulkPod(step) == IF step <= 2 THEN [kind |-> "loadtest", pod |-> loadtestPods[1]]
                              ELSE [kind |-> "app", pod |-> appPods[1]]

BulkStepOf(pc) ==
    CASE pc = "bulkLoad1" -> 1
      [] pc = "bulkLoad2" -> 2
      [] pc = "bulkLoad3" -> 3
      [] pc = "bulkLoad4" -> 4
      [] OTHER -> 0

BulkPcOf(step) ==
    CASE step = 1 -> "bulkLoad1"
      [] step = 2 -> "bulkLoad2"
      [] step = 3 -> "bulkLoad3"
      [] step = 4 -> "bulkLoad4"

\* Where Loadtest goes after a bulkLoad command ran with outcome ok (lines
\* 45-47, 51-53, 56-58, 61-63 and 80-82): a failed command returns the error
\* through bulkLoad and Loadtest; a successful one runs the next command, and
\* after the last one Loadtest goes on to wg.Add.
AfterBulkStep_IgnoreError(step, ok) ==
    IF step < BulkSteps THEN BulkPcOf(step + 1) ELSE "wgAdd"

AfterBulkStep_Retry(step, ok) ==
    IF ~ok THEN BulkPcOf(step)
    ELSE IF step < BulkSteps THEN BulkPcOf(step + 1) ELSE "wgAdd"

AfterBulkStep(step, ok) ==
    IF ~ok THEN "returned"
    ELSE IF step < BulkSteps THEN BulkPcOf(step + 1) ELSE "wgAdd"

\* One command of bulkLoad (genbulkload, cp to local, cp to app pod, import).
BulkLoadStep(ok) ==
    LET step == BulkStepOf(lpc) IN
    /\ step >= 1
    /\ bulkLog' = Append(bulkLog, [step |-> step, on |-> BulkPod(step), ok |-> ok])
    /\ err' = IF ok THEN Nil
              ELSE IF step = BulkSteps THEN Wrap("exit status", "bulk import failed")
              ELSE "exit status"
    /\ lpc' = AfterBulkStep(step, ok)
    /\ ret' = IF lpc' = "returned" THEN err' ELSE ret
    /\ UNCHANGED <<loadtestPods, appPods, bulkCalls, wg, wgAdded, i, workers>>
    /\ UNCHANGED <<runnerVars, sharedVars, wsVars, timeVars, scheduleVars>>

\* Line 85: the delta passed to wg.Add.
WgDelta_OneShort(pods) == Len(pods) - 1

WgDelta(pods) == Len(pods)

\* Lines 84-85, entering the range loop with i = 0.
WgAdd ==
    /\ lpc = "wgAdd"
    /\ wg' = wg + WgDelta(loadtestPods)
    /\ wgAdded' = TRUE
    /\ i' = 0
    /\ lpc' = "go"
    /\ UNCHANGED <<loadtestPods, appPods, err, ret, bulkCalls, bulkLog, workers>>
    /\ UNCHANGED <<runnerVars, sharedVars, wsVars, timeVars, scheduleVars>>

\* Lines 88-100: pod := pod; go func() {...}() for loadtestPods[i].
GoWorker ==
    /\ lpc = "go"
    /\ LET p == loadtestPods[i + 1] IN
         workers' = [workers EXCEPT ![p].pc = "spawned",
                                    ![p].launches = @ + 1]
    /\ launchedAt' = [launchedAt EXCEPT ![loadtestPods[i + 1]] = clock]
    /\ sleepStart' = clock
    /\ lpc' = "sleep"
    /\ UNCHANGED <<loadtestPods, appPods, err, ret, bulkCalls, bulkLog, wg, wgAdded, i, clock>>
    /\ UNCHANGED <<runnerVars, sharedVars, wsVars, scheduleVars>>

\* Line 102: time.Sleep(time.Second * 10) returns once at least that much
\* time has passed since it was entered.
StaggerElapsed_NoSleep(began, at) == TRUE

StaggerElapsed(began, at) == at - began >= StaggerSeconds

\* Time passes while Loadtest is in its launch loop.
Tick ==
    /\ lpc \in {"go", "sleep"}
    /\ clock + TickSeconds <= MaxClock
    /\ clock' = clock + TickSeconds
    /\ UNCHANGED <<lpc, loadtestPods, appPods, err, ret, bulkCalls, bulkLog, wg, wgAdded, i,
                   workers, sleepStart, launchedAt>>
    /\ UNCHANGED <<runnerVars, sharedVars, wsVars, scheduleVars>>

\* Line 102 returning, then the range statement: next index, or leave the loop.
SleepDone ==
    /\ lpc = "sleep"
    /\ StaggerElapsed(sleepStart, clock)
    /\ IF i + 1 < Len(loadtestPods)
         THEN i' = i + 1 /\ lpc' = "go"
         ELSE i' = i /\ lpc' = "wait"
    /\ UNCHANGED <<loadtestPods, appPods, err, ret, bulkCalls, bulkLog, wg, wgAdded, workers>>
    /\ UNCHANGED <<runnerVars, sharedVars, wsVars, timeVars, scheduleVars>>

\* Lines 90-95: the closure reads the loop's i when it starts running and
\* calls loadtestPod; lines 16-23 create the result file.
\* prep is "ok", "mkdir" (MkdirAll failed) or "create" (os.Create failed).
WorkerStart(p, prep) ==
    /\ workers[p].pc = "spawned"
    /\ workers' = [workers EXCEPT
          ![p].mirror = IF i = 0 THEN "resultsOutput" ELSE Nil,
          ![p].pc = IF prep = "ok" THEN "running" ELSE "finished",
          ![p].runs = IF prep = "ok" THEN @ + 1 ELSE @,
          ![p].err = IF prep = "mkdir" THEN Wrap("mkdir", "unable to create results directory.")
                     ELSE IF prep = "create" THEN Wrap("create", "unable to create loadtest results file.")
                     ELSE Nil]
    /\ UNCHANGED <<lpc, loadtestPods, appPods, err, ret, bulkCalls, bulkLog, wg, wgAdded, i>>
    /\ UNCHANGED <<runnerVars, sharedVars, wsVars, timeVars, scheduleVars>>

\* Lines 35-39: cmd.Run() of "kubectl exec pod ./bin/loadtest all" returns.
WorkerRunEnds(p, ok) ==
    /\ workers[p].pc = "running"
    /\ workers' = [workers EXCEPT ![p].pc = "finished",
                                  ![p].err = IF ok THEN Nil ELSE "exit status"]
    /\ UNCHANGED <<lpc, loadtestPods, appPods, err, ret, bulkCalls, bulkLog, wg, wgAdded, i>>
    /\ UNCHANGED <<runnerVars, sharedVars, wsVars, timeVars, scheduleVars>>

\* Lines 96-99: whether the closure reaches wg.Done() given loadtestPod's error.
CallsDone_OnlyOnSuccess(e) == e = Nil

CallsDone(e) == TRUE

\* Lines 96-100: log the error if any, wg.Done(), the goroutine ends.
WorkerDone(p) ==
    /\ workers[p].pc = "finished"
    /\ IF CallsDone(workers[p].err)
         THEN /\ wg' = wg - 1
              /\ workers' = [workers EXCEPT ![p].pc = "exited", ![p].dones = @ + 1]
         ELSE /\ wg' = wg
              /\ workers' = [workers EXCEPT ![p].pc = "exited"]
    /\ UNCHANGED <<lpc, loadtestPods, appPods, err, ret, bulkCalls, bulkLog, wgAdded, i>>
    /\ UNCHANGED <<runnerVars, sharedVars, wsVars, timeVars, scheduleVars>>

\* Lines 106-108: wg.Wait() returns once the counter is zero; return nil.
WaitReturns ==
    /\ lpc = "wait"
    /\ wg = 0
    /\ ret' = Nil
    /\ lpc' = "returned"
    /\ UNCHANGED <<loadtestPods, appPods, err, bulkCalls, bulkLog, wg, wgAdded, i, workers>>
    /\ UNCHANGED <<runnerVars, sharedVars, wsVars, timeVars, scheduleVars>>

DiscoveryErrs == {Nil, "discovery"}

InitCluster ==
    InitClusterVars /\ InitRunnerIdle /\ InitSharedIdle /\ InitWSIdle /\ InitScheduleIdle

NextCluster ==
    \/ \E n \in 0..MaxWorkers, e \in DiscoveryErrs : GetLoadtestInstancesAddrs(n, e)
    \/ \E n \in 0..MaxTargets, e \in DiscoveryErrs : GetAppInstancesAddrs(n, e)
    \/ \E ok \in BOOLEAN : BulkLoadStep(ok)
    \/ WgAdd
    \/ GoWorker
    \/ SleepDone
    \/ Tick
    \/ \E p \in 1..MaxWorkers, prep \in {"ok", "mkdir", "create"} : WorkerStart(p, prep)
    \/ \E p \in 1..MaxWorkers, ok \in BOOLEAN : WorkerRunEnds(p, ok)
    \/ \E p \in 1..MaxWorkers : WorkerDone(p)
    \/ WaitReturns

SpecCluster == InitCluster /\ [][NextCluster]_vars

(***************************************************************************)
(* runEntity and doStatusPolling                                           *)
(***************************************************************************)

Kinds == {"runEntity", "doStatusPolling"}

\* A goroutine as the go statement leaves it: created, nothing executed yet.
\* sync.WaitGroup: the Done that takes the counter to zero wakes the
\* goroutines blocked in Wait, inside Done.
WaiterAfterDone(counter, w) == IF counter = 0 /\ w = "waiting" THEN "woken" ELSE w

\* An unrecovered panic ends the process and every goroutine with it.
ProcessRunning == waiter # "panicked"

NewTask == [pc |-> "start", panicking |-> FALSE, timer |-> "unset"]

Live(k) == {t \in 1..Len(tasks[k]) : tasks[k][t].pc # "exited"}

\* randutil.WeightedChoice fails when the choice list is empty or the total
\* weight is not positive.
RECURSIVE SumWeights(_)
SumWeights(ws) == IF ws = <<>> THEN 0 ELSE Head(ws) + SumWeights(Tail(ws))

WeightedChoiceFails(ws) == Len(ws) = 0 \/ SumWeights(ws) <= 0

\* Lines 113-133 / 153-162: the two defers are registered (the recovering
\* closure first, StopWaitGroup.Done second), the timer or ticker is created
\* and the goroutine reaches its select.
RunnerStart(k, t) ==
    /\ ProcessRunning
    /\ tasks[k][t].pc = "start"
    /\ tasks' = [tasks EXCEPT ![k][t].pc = "select", ![k][t].timer = "armed"]
    /\ UNCHANGED <<EntityActions, sharedVars, wsVars, clusterVars, scheduleVars>>

\* The runtime delivers the timer's (ticker's) tick on its channel.
TimerFires(k, t) ==
    /\ ProcessRunning
    /\ tasks[k][t].pc \in {"select", "acting"}
    /\ tasks[k][t].timer = "armed"
    /\ tasks' = [tasks EXCEPT ![k][t].timer = "fired"]
    /\ UNCHANGED <<EntityActions, sharedVars, wsVars, clusterVars, scheduleVars>>

\* Lines 136-137 / 165-166: the select takes the StopChannel case and returns.
\* A select with several ready cases takes any one of them.
SelectStop(k, t) ==
    /\ ProcessRunning
    /\ tasks[k][t].pc = "select"
    /\ StopChannel = "closed"
    /\ tasks' = [tasks EXCEPT ![k][t].pc = "Done"]
    /\ UNCHANGED <<EntityActions, sharedVars, wsVars, clusterVars, scheduleVars>>

\* Lines 139-144: where runEntity goes once the timer case is taken: it
\* returns (through its defers) when WeightedChoice reports an error and
\* calls the chosen action otherwise. doStatusPolling always calls its action.
AfterChoice_IgnoreError(k, weights) == "acting"

AfterChoice(k, weights) ==
    IF k = "runEntity" /\ WeightedChoiceFails(weights) THEN "Done" ELSE "acting"

\* Lines 138-144 / 167-168: the select takes the timer case. runEntity picks
\* an action and returns if the choice fails; otherwise the action is called.
\* A time.Timer stays silent until Reset; a time.Ticker keeps ticking.
SelectTimer(k, t) ==
    /\ ProcessRunning
    /\ tasks[k][t].pc = "select"
    /\ tasks[k][t].timer = "fired"
    /\ tasks' = [tasks EXCEPT
          ![k][t].timer = IF k = "runEntity" THEN "idle" ELSE "armed",
          ![k][t].pc = AfterChoice(k, EntityActions)]
    /\ UNCHANGED <<EntityActions, sharedVars, wsVars, clusterVars, scheduleVars>>

\* Lines 144-147 / 168: the action returns, runEntity re-arms its timer, and
\* the loop is back at the select.
ActionReturns(k, t) ==
    /\ ProcessRunning
    /\ tasks[k][t].pc = "acting"
    /\ tasks' = [tasks EXCEPT
          ![k][t].pc = "select",
          ![k][t].timer = IF k = "runEntity" THEN "armed" ELSE @]
    /\ UNCHANGED <<EntityActions, sharedVars, wsVars, clusterVars, scheduleVars>>

\* Lines 144-147 / 168: the action (or the re-arming code) panics; the
\* goroutine starts running its deferred calls, last registered first.
ActionPanics(k, t) ==
    /\ ProcessRunning
    /\ tasks[k][t].pc = "acting"
    /\ Len(tasks[k]) <= MaxCrashes
    /\ tasks' = [tasks EXCEPT ![k][t].pc = "Done", ![k][t].panicking = TRUE]
    /\ UNCHANGED <<EntityActions, sharedVars, wsVars, clusterVars, scheduleVars>>

\* Line 120 / 160: the deferred ec.StopWaitGroup.Done(), registered last and
\* therefore run first.
DeferredDone_NotOnPanic(k, t) ==
    /\ ProcessRunning
    /\ tasks[k][t].pc = "Done"
    /\ StopWaitGroup' = IF tasks[k][t].panicking THEN StopWaitGroup ELSE StopWaitGroup - 1
    /\ waiter' = WaiterAfterDone(StopWaitGroup', waiter)
    /\ tasks' = [tasks EXCEPT ![k][t].pc = "recover"]
    /\ UNCHANGED <<EntityActions, StopChannel, wsVars, clusterVars, scheduleVars>>

DeferredDone(k, t) ==
    /\ ProcessRunning
    /\ tasks[k][t].pc = "Done"
    /\ StopWaitGroup' = StopWaitGroup - 1
    /\ waiter' = WaiterAfterDone(StopWaitGroup - 1, waiter)
    /\ tasks' = [tasks EXCEPT ![k][t].pc = "recover"]
    /\ UNCHANGED <<EntityActions, StopChannel, wsVars, clusterVars, scheduleVars>>

\* Lines 113-116 / 153-156: the deferred closure; recover() is non-nil only
\* when the goroutine is panicking, and then ec.StopWaitGroup.Add(1) runs.
DeferredRecover(k, t) ==
    /\ ProcessRunning
    /\ tasks[k][t].pc = "recover"
    /\ IF tasks[k][t].panicking
         THEN /\ StopWaitGroup' = StopWaitGroup + 1
              /\ tasks' = [tasks EXCEPT ![k][t].pc = "go"]
         ELSE /\ StopWaitGroup' = StopWaitGroup
              /\ tasks' = [tasks EXCEPT ![k][t].pc = "exited"]
    /\ UNCHANGED <<EntityActions, StopChannel, waiter, wsVars, clusterVars, scheduleVars>>

\* Line 117 / 157: go runEntity(ec) (go doStatusPolling(ec)); the recovered
\* goroutine then ends.
Respawn_KeepsRunning(k, t) ==
    /\ ProcessRunning
    /\ tasks[k][t].pc = "go"
    /\ tasks' = [tasks EXCEPT ![k] = Append([@ EXCEPT ![t].pc = "select"], NewTask)]
    /\ UNCHANGED <<EntityActions, sharedVars, wsVars, clusterVars, scheduleVars>>

\* Line 117 / 157: the recover closure starts the runner again and returns.
Respawn(k, t) ==
    /\ ProcessRunning
    /\ tasks[k][t].pc = "go"
    /\ tasks' = [tasks EXCEPT ![k] = Append([@ EXCEPT ![t].pc = "exited"], NewTask)]
    /\ UNCHANGED <<EntityActions, sharedVars, wsVars, clusterVars, scheduleVars>>

\* The owner of the stop channel closes it.
CloseStopChannel ==
    /\ ProcessRunning
    /\ StopChannel = "open"
    /\ StopChannel' = "closed"
    /\ UNCHANGED <<StopWaitGroup, waiter, runnerVars, wsVars, clusterVars, scheduleVars>>

\* sync.WaitGroup.Wait: the woken goroutine resumes, reads the state again
\* and returns when it is still zero.
WaitGroupWaitReturns ==
    /\ waiter = "woken"
    /\ StopWaitGroup = 0
    /\ waiter' = "released"
    /\ UNCHANGED <<StopWaitGroup, StopChannel, runnerVars, wsVars, clusterVars, scheduleVars>>

\* sync.WaitGroup.Wait: the woken goroutine resumes after an Add(1) of a
\* recover closure and panics with "sync: WaitGroup is reused before
\* previous Wait has returned"; nothing recovers it and the process ends.
WaitGroupWaitPanics ==
    /\ waiter = "woken"
    /\ StopWaitGroup # 0
    /\ waiter' = "panicked"
    /\ UNCHANGED <<StopWaitGroup, StopChannel, runnerVars, wsVars, clusterVars, scheduleVars>>

\* The weight lists the model runs runEntity with.
ActionWeights == {<<>>, <<0>>, <<3, 1>>}

NonEmptySubsets(S) == SUBSET S \ {{}}

\* After the launcher did StopWaitGroup.Add(1) and a go statement for each
\* runner it starts.
Init ==
    /\ \E launched \in NonEmptySubsets(Kinds) :
          /\ tasks = [k \in Kinds |-> IF k \in launched THEN <<NewTask>> ELSE <<>>]
          /\ StopWaitGroup = Cardinality(launched)
    /\ EntityActions \in ActionWeights
    /\ StopChannel = "open"
    /\ waiter = "waiting"
    /\ InitWSIdle
    /\ InitClusterVars
    /\ InitScheduleIdle

Next ==
    \/ \E k \in Kinds : \E t \in DOMAIN tasks[k] : RunnerStart(k, t)
    \/ \E k \in Kinds : \E t \in DOMAIN tasks[k] : TimerFires(k, t)
    \/ \E k \in Kinds : \E t \in DOMAIN tasks[k] : SelectStop(k, t)
    \/ \E k \in Kinds : \E t \in DOMAIN tasks[k] : SelectTimer(k, t)
    \/ \E k \in Kinds : \E t \in DOMAIN tasks[k] : ActionReturns(k, t)
    \/ \E k \in Kinds : \E t \in DOMAIN tasks[k] : ActionPanics(k, t)
    \/ \E k \in Kinds : \E t \in DOMAIN tasks[k] : DeferredDone(k, t)
    \/ \E k \in Kinds : \E t \in DOMAIN tasks[k] : DeferredRecover(k, t)
    \/ \E k \in Kinds : \E t \in DOMAIN tasks[k] : Respawn(k, t)
    \/ CloseStopChannel
    \/ WaitGroupWaitReturns
    \/ WaitGroupWaitPanics

Spec == Init /\ [][Next]_vars

(***************************************************************************)
(* websocketListen                                                         *)
(***************************************************************************)

WsLive == wsPc \notin {"unlaunched", "exited"}

\* Lines 174-182: defer Done; return if there is no client; Listen().
WsStart ==
    /\ ProcessRunning
    /\ wsPc = "start"
    /\ wsPc' = IF WebSocketClient = Nil THEN "Done" ELSE "select"
    /\ UNCHANGED <<WebSocketClient, websocketRetryCount, EventChannel, ListenError,
                   sleepFor, connects, episode, cmdlog>>
    /\ UNCHANGED <<runnerVars, sharedVars, clusterVars, scheduleVars>>

\* The client's reader goroutine puts a received event on EventChannel.
EventArrives ==
    /\ ProcessRunning
    /\ wsPc \in {"select", "retry", "sleep"}
    /\ ~EventChannel.closed
    /\ EventChannel.pending < MaxPending
    /\ EventChannel' = [EventChannel EXCEPT !.pending = @ + 1]
    /\ UNCHANGED <<wsPc, WebSocketClient, websocketRetryCount, ListenError,
                   sleepFor, connects, episode, cmdlog>>
    /\ UNCHANGED <<runnerVars, sharedVars, clusterVars, scheduleVars>>

\* The connection drops: the client's reader goroutine records the error, if
\* any, in ListenError and closes EventChannel.
ConnectionDrops(le) ==
    /\ ProcessRunning
    /\ wsPc = "select"
    /\ ~EventChannel.closed
    /\ episode < MaxDrops
    /\ EventChannel' = [EventChannel EXCEPT !.closed = TRUE]
    /\ ListenError' = le
    /\ UNCHANGED <<wsPc, WebSocketClient, websocketRetryCount,
                   sleepFor, connects, episode, cmdlog>>
    /\ UNCHANGED <<runnerVars, sharedVars, clusterVars, scheduleVars>>

\* Lines 186-187: the select takes the StopChannel case.
WsSelectStop ==
    /\ ProcessRunning
    /\ wsPc = "select"
    /\ StopChannel = "closed"
    /\ wsPc' = "Done"
    /\ UNCHANGED <<WebSocketClient, websocketRetryCount, EventChannel, ListenError,
                   sleepFor, connects, episode, cmdlog>>
    /\ UNCHANGED <<runnerVars, sharedVars, clusterVars, scheduleVars>>

\* Lines 188-189 with ok = true: an event is received and dropped.
WsSelectEvent ==
    /\ ProcessRunning
    /\ wsPc = "select"
    /\ EventChannel.pending > 0
    /\ EventChannel' = [EventChannel EXCEPT !.pending = @ - 1]
    /\ UNCHANGED <<wsPc, WebSocketClient, websocketRetryCount, ListenError,
                   sleepFor, connects, episode, cmdlog>>
    /\ UNCHANGED <<runnerVars, sharedVars, clusterVars, scheduleVars>>

\* Lines 188-191 with ok = false: the channel is closed and drained; the
\* retry loop is entered.
WsSelectClosed ==
    /\ ProcessRunning
    /\ wsPc = "select"
    /\ EventChannel.closed
    /\ EventChannel.pending = 0
    /\ wsPc' = "retry"
    /\ episode' = episode + 1
    /\ UNCHANGED <<WebSocketClient, websocketRetryCount, EventChannel, ListenError,
                   sleepFor, connects, cmdlog>>
    /\ UNCHANGED <<runnerVars, sharedVars, clusterVars, scheduleVars>>

\* Line 192: the test that ends the retry loop.
RetriesExhausted_OffByOne(n) == n >= MaxRetries

RetriesExhausted(n) == n > MaxRetries

\* Line 201: the seconds slept before a Connect at retry count n.
SleepSeconds_FromOne(n) == n + 1

SleepSeconds(n) == n

\* Lines 192-201: the top of the retry loop. Either the retries are used up,
\* the error is logged and the function returns, or time.Sleep is entered.
WsRetry ==
    /\ ProcessRunning
    /\ wsPc = "retry"
    /\ IF RetriesExhausted(websocketRetryCount)
         THEN /\ cmdlog' = cmdlog \o
                    << IF ListenError # Nil THEN "Websocket Error" ELSE "Server closed websocket",
                       "Websocket disconneced. Max retries reached." >>
              /\ wsPc' = "Done"
              /\ UNCHANGED sleepFor
         ELSE /\ sleepFor' = SleepSeconds(websocketRetryCount)
              /\ wsPc' = "sleep"
              /\ UNCHANGED cmdlog
    /\ UNCHANGED <<WebSocketClient, websocketRetryCount, EventChannel, ListenError,
                   connects, episode>>
    /\ UNCHANGED <<runnerVars, sharedVars, clusterVars, scheduleVars>>

RetryCountAfter_Reset(n, ok) == IF ok THEN 0 ELSE n + 1

\* Lines 203 / 206: the retry count after a Connect that succeeded or failed.
RetryCountAfter(n, ok) == IF ok THEN n ELSE n + 1

\* Lines 201-207: the sleep is over and Connect is called. On failure the
\* count goes up and the loop continues; on success Connect has made a new
\* EventChannel, Listen() is called and the retry loop is left.
WsConnect(ok) ==
    /\ ProcessRunning
    /\ wsPc = "sleep"
    /\ connects' = Append(connects, [delay |-> sleepFor, count |-> websocketRetryCount,
                                     ok |-> ok, episode |-> episode])
    /\ sleepFor' = -1
    /\ websocketRetryCount' = RetryCountAfter(websocketRetryCount, ok)
    /\ IF ok
         THEN /\ EventChannel' = [closed |-> FALSE, pending |-> 0]
              /\ wsPc' = "select"
         ELSE /\ wsPc' = "retry"
              /\ UNCHANGED EventChannel
    /\ UNCHANGED <<WebSocketClient, ListenError, episode, cmdlog>>
    /\ UNCHANGED <<runnerVars, sharedVars, clusterVars, scheduleVars>>

\* Line 174: the deferred ec.StopWaitGroup.Done().
WsDeferredDone ==
    /\ ProcessRunning
    /\ wsPc = "Done"
    /\ StopWaitGroup' = StopWaitGroup - 1
    /\ waiter' = WaiterAfterDone(StopWaitGroup - 1, waiter)
    /\ wsPc' = "exited"
    /\ UNCHANGED <<WebSocketClient, websocketRetryCount, EventChannel, ListenError,
                   sleepFor, connects, episode, cmdlog>>
    /\ UNCHANGED <<StopChannel, runnerVars, clusterVars, scheduleVars>>

\* After the launcher did StopWaitGroup.Add(1) and go websocketListen(ec).
InitWS ==
    /\ wsPc = "start"
    /\ WebSocketClient \in {Nil, "client"}
    /\ websocketRetryCount = 0
    /\ EventChannel = [closed |-> FALSE, pending |-> 0]
    /\ ListenError = Nil
    /\ sleepFor = -1
    /\ connects = <<>>
    /\ episode = 0
    /\ cmdlog = <<>>
    /\ StopWaitGroup = 1
    /\ StopChannel = "open"
    /\ waiter = "waiting"
    /\ InitRunnerIdle
    /\ InitClusterVars
    /\ InitScheduleIdle

NextWS ==
    \/ WsStart
    \/ EventArrives
    \/ \E le \in {Nil, "err"} : ConnectionDrops(le)
    \/ WsSelectStop
    \/ WsSelectEvent
    \/ WsSelectClosed
    \/ WsRetry
    \/ \E ok \in BOOLEAN : WsConnect(ok)
    \/ WsDeferredDone
    \/ CloseStopChannel
    \/ WaitGroupWaitReturns

SpecWS == InitWS /\ [][NextWS]_vars

(***************************************************************************)
(* The timer schedule of runEntity: first-firing alignment and re-arming    *)
(***************************************************************************)

\* Go's % on int64: the remainder has the sign of the dividend.
Rem(a, b) == IF a >= 0 THEN a % b ELSE -((-a) % b)

\* time.Unix(0, now.UnixNano() - now.UnixNano() % int64(ec.ActionRate/time.Nanosecond))
intervalStart(n, R) == n - Rem(n, R)

\* Time.Before
Before(a, b) == a < b

Advance_None(s, R) == s

\* start.Add(ec.ActionRate)
Advance(s, R) == s + R

\* The value of start after lines 127-130, o being the random offset.
FirstStart(n, R, o) ==
    LET s == intervalStart(n, R) + o
    IN  IF Before(s, n) THEN Advance(s, R) ELSE s

HalfVariance_None(V) == 0

\* time.Duration(actionRateMaxVarianceMilliseconds / 2.0): the constant 2.0
\* is converted to int, the division is Go's integer division.
halfVarianceDuration(V) == IF V >= 0 THEN V \div 2 ELSE -((-V) \div 2)

\* The argument of timer.Reset at line 147, r being the value of rand.Intn.
ResetDelay(R, V, r) == R + r - halfVarianceDuration(V)

\* Lines 125-133: the clock is read, the first firing is placed on the grid
\* and the timer is created with the distance to it.
AlignFirstFiring(n, o) ==
    /\ spc = "start"
    /\ now' = n
    /\ offset' = o
    /\ start' = FirstStart(n, ActionRate, o)
    /\ delay' = FirstStart(n, ActionRate, o) - n
    /\ spc' = "first"
    /\ UNCHANGED <<ActionRate, actionRateMaxVarianceMilliseconds>>
    /\ UNCHANGED <<clusterVars, runnerVars, sharedVars, wsVars>>

\* Lines 138-147 with a positive variance: the timer fired, the action ran,
\* the timer is re-armed.
ResetTimer(r) ==
    /\ spc \in {"first", "reset"}
    /\ actionRateMaxVarianceMilliseconds > 0
    /\ delay' = ResetDelay(ActionRate, actionRateMaxVarianceMilliseconds, r)
    /\ spc' = "reset"
    /\ UNCHANGED <<ActionRate, actionRateMaxVarianceMilliseconds, now, offset, start>>
    /\ UNCHANGED <<clusterVars, runnerVars, sharedVars, wsVars>>

\* Line 146 with a variance of zero: rand.Intn panics, the timer keeps the
\* delay it had.
ResetPanics ==
    /\ spc \in {"first", "reset"}
    /\ actionRateMaxVarianceMilliseconds <= 0
    /\ spc' = "panicked"
    /\ UNCHANGED <<ActionRate, actionRateMaxVarianceMilliseconds, now, offset, start,
                   delay>>
    /\ UNCHANGED <<clusterVars, runnerVars, sharedVars, wsVars>>

InitSchedule ==
    /\ spc = "start"
    /\ ActionRate \in 1..MaxRate
    /\ actionRateMaxVarianceMilliseconds \in 0..MaxVariance
    /\ now = 0
    /\ offset = 0
    /\ start = 0
    /\ delay = 0
    /\ InitClusterVars
    /\ InitRunnerIdle
    /\ InitSharedIdle
    /\ InitWSIdle

NextSchedule ==
    \/ \E n \in 0..MaxNow : \E o \in 0..(ActionRate - 1) : AlignFirstFiring(n, o)
    \/ \E r \in 0..(actionRateMaxVarianceMilliseconds - 1) : ResetTimer(r)
    \/ ResetPanics

SpecSchedule == InitSchedule /\ [][NextSchedule]_vars

(***************************************************************************)
(* One entity: runEntity, doStatusPolling and websocketListen together     *)
(***************************************************************************)

\* After the launcher did StopWaitGroup.Add(1) and a go statement for each of
\* the three runners of one entity.
InitEntity ==
    /\ tasks = [k \in Kinds |-> <<NewTask>>]
    /\ EntityActions \in ActionWeights
    /\ wsPc = "start"
    /\ WebSocketClient \in {Nil, "client"}
    /\ websocketRetryCount = 0
    /\ EventChannel = [closed |-> FALSE, pending |-> 0]
    /\ ListenError = Nil
    /\ sleepFor = -1
    /\ connects = <<>>
    /\ episode = 0
    /\ cmdlog = <<>>
    /\ StopWaitGroup = 3
    /\ StopChannel = "open"
    /\ waiter = "waiting"
    /\ InitClusterVars
    /\ InitScheduleIdle

\* The three runners together are explored with a budget of crashes shared
\* by runEntity and doStatusPolling and a budget of connection drops.
Panicked(k) == {t \in DOMAIN tasks[k] : tasks[k][t].panicking}
DropsSoFar == episode + (IF EventChannel.closed /\ wsPc = "select" THEN 1 ELSE 0)

EntityBounds ==
    /\ Cardinality(Panicked("runEntity")) + Cardinality(Panicked("doStatusPolling"))
          <= MaxEntityCrashes
    /\ DropsSoFar <= MaxEntityDrops

NextEntity == (Next \/ NextWS) /\ EntityBounds'

SpecEntity == InitEntity /\ [][NextEntity]_vars

\* Scheduling assumptions: a goroutine that can run a step other than a
\* select eventually runs it (an action or a Connect call returns or fails
\* in finite time, a sleep ends); a select that finds the stop channel ready
\* again and again eventually takes that case, Go choosing uniformly at
\* random among the ready cases; a goroutine woken in Wait resumes.
RunnerProgress(k) ==
    \E t \in DOMAIN tasks[k] :
        \/ RunnerStart(k, t)
        \/ ActionReturns(k, t)
        \/ DeferredDone(k, t)
        \/ DeferredRecover(k, t)
        \/ Respawn(k, t)

RunnerStops(k) == \E t \in DOMAIN tasks[k] : SelectStop(k, t)

WsProgress ==
    \/ WsStart
    \/ WsRetry
    \/ \E ok \in BOOLEAN : WsConnect(ok)
    \/ WsDeferredDone

EntityFairness ==
    /\ \A k \in Kinds : WF_vars(RunnerProgress(k) /\ EntityBounds')
    /\ \A k \in Kinds : SF_vars(RunnerStops(k) /\ EntityBounds')
    /\ WF_vars(WsProgress /\ EntityBounds')
    /\ SF_vars(WsSelectStop /\ EntityBounds')
    /\ WF_vars((WaitGroupWaitReturns \/ WaitGroupWaitPanics) /\ EntityBounds')

SpecEntityFair == SpecEntity /\ EntityFairness

(***************************************************************************)
(* Properties of runEntity and doStatusPolling                             *)
(***************************************************************************)

\* A runner has permanently stopped when every goroutine of its chain has
\* ended or is returning normally with its Done already executed.
StillRunning(k) ==
    \E t \in DOMAIN tasks[k] :
        /\ tasks[k][t].pc # "exited"
        /\ ~(tasks[k][t].pc = "recover" /\ ~tasks[k][t].panicking)

\* C1: while some runner has not permanently stopped (crash-and-restart
\* cycles included) the completion counter is at least 1 and the goroutine
\* waiting on it has not been released.
C1_CounterNeverZeroWhileRunning ==
    (\E k \in Kinds : StillRunning(k)) =>
        (StopWaitGroup >= 1 /\ waiter # "released")

\* C9: a runEntity goroutine that is at its select while the stop channel
\* is closed does not go on to execute an action.
C9_StopPreemptsPendingAction ==
    [][\A t \in DOMAIN tasks["runEntity"] :
          (StopChannel = "closed" /\ tasks["runEntity"][t].pc = "select")
              => tasks'["runEntity"][t].pc # "acting"]_vars

\* Goroutines of runner k that hold one unit of the counter: started and not
\* yet past their deferred Done, or past the Add(1) made for a replacement
\* that is not started yet.
Outstanding(k) ==
    Cardinality({t \in DOMAIN tasks[k] :
                    tasks[k][t].pc \in {"start", "select", "acting", "Done", "go"}})
WsOutstanding == IF wsPc \in {"start", "select", "retry", "sleep", "Done"} THEN 1 ELSE 0
Crashed(k) == {t \in DOMAIN tasks[k] : tasks[k][t].panicking /\ tasks[k][t].pc = "exited"}
AllStopped ==
    /\ \A k \in Kinds : \A t \in DOMAIN tasks[k] : tasks[k][t].pc = "exited"
    /\ wsPc \in {"unlaunched", "exited"}

\* C11: the counter always equals the number of goroutines that still owe
\* their single Done (each goroutine of runEntity, doStatusPolling and
\* websocketListen owes one from its start until its deferred Done, and a
\* crashed goroutine holds one more from its Add(1) until it has started its
\* replacement); every crashed goroutine has started exactly one replacement;
\* the counter is never negative and is zero once every goroutine has ended.
C11_CounterConservation ==
    /\ StopWaitGroup = Outstanding("runEntity") + Outstanding("doStatusPolling") + WsOutstanding
    /\ StopWaitGroup >= 0
    /\ \A k \in Kinds : Len(tasks[k]) = 1 + Cardinality(Crashed(k))
    /\ AllStopped => StopWaitGroup = 0

C11_Witness ==
    /\ AllStopped
    /\ StopWaitGroup = 0
    /\ Cardinality(Crashed("runEntity")) = 1
    /\ Len(cmdlog) > 0

\* C12: at most one runEntity goroutine is started-or-in-its-loop at any
\* time, at most one is executing an action, and while one executes an
\* action no other one is waiting in the select.
C12_ActionsStrictlySequential ==
    LET T == DOMAIN tasks["runEntity"]
        InLoop == {t \in T : tasks["runEntity"][t].pc \in {"start", "select", "acting"}}
        Acting == {t \in T : tasks["runEntity"][t].pc = "acting"}
    IN /\ Cardinality(InLoop) <= 1
       /\ Cardinality(Acting) <= 1

C12_Witness ==
    /\ Len(tasks["runEntity"]) = 3
    /\ tasks["runEntity"][1].panicking
    /\ tasks["runEntity"][2].panicking
    /\ tasks["runEntity"][3].pc = "acting"

\* C16: when the weighted choice fails for the configured action list, no
\* runEntity goroutine ever executes an action or panics, none is ever
\* respawned, and the goroutine that took the timer case has its timer
\* drained and is past the select on the returning path; once it has ended
\* the counter no longer counts it.
C16_SelectionFailureIsFatal ==
    WeightedChoiceFails(EntityActions) =>
        /\ Len(tasks["runEntity"]) <= 1
        /\ \A t \in DOMAIN tasks["runEntity"] :
              LET T == tasks["runEntity"][t] IN
              /\ T.pc # "acting"
              /\ T.pc # "go"
              /\ ~T.panicking
              /\ T.timer = "idle" => T.pc \in {"Done", "recover", "exited"}
              /\ T.pc \in {"recover", "exited"} =>
                    StopWaitGroup = Outstanding("doStatusPolling")

C16_Witness ==
    /\ EntityActions = <<0>>
    /\ StopChannel = "open"
    /\ Len(tasks["runEntity"]) = 1
    /\ tasks["runEntity"][1].pc = "exited"
    /\ tasks["runEntity"][1].timer = "idle"

\* C20: whenever the stop channel is closed, eventually every goroutine of
\* runEntity, doStatusPolling and websocketListen (respawned ones included)
\* has ended, the counter is zero and the goroutine waiting on it has been
\* released (Wait has returned).
C20_CleanShutdown ==
    (StopChannel = "closed") ~> (AllStopped /\ StopWaitGroup = 0 /\ waiter = "released")

(***************************************************************************)
(* Properties of the timer schedule of runEntity                           *)
(***************************************************************************)

\* C15: for every action rate R and every variance V > 0, the delay the timer
\* is re-armed with after an executed action lies in [R - V/2, R + V/2]
\* (stated on the doubled values, V/2 being a half-integer for odd V).
C15_ResetDelayWithinHalfVariance ==
    (spc = "reset" /\ actionRateMaxVarianceMilliseconds > 0) =>
        /\ 2 * ActionRate - actionRateMaxVarianceMilliseconds <= 2 * delay
        /\ 2 * delay <= 2 * ActionRate + actionRateMaxVarianceMilliseconds

C15_Witness ==
    /\ spc = "reset"
    /\ actionRateMaxVarianceMilliseconds = 3
    /\ delay = ActionRate + 1

\* C18: for every time now at or after the epoch, rate R > 0 and offset o in
\* [0, R), the first firing is at (now - now mod R) + o when that instant is not
\* before now and one interval R later otherwise; the initial delay is in
\* [0, R) and the first firing time is congruent to o modulo R.
C18_FirstFiringAlignment ==
    spc # "idle" /\ spc # "start" =>
        LET g == (now - (now % ActionRate)) + offset
        IN  /\ start = IF g >= now THEN g ELSE g + ActionRate
            /\ 0 <= start - now
            /\ start - now < ActionRate
            /\ start % ActionRate = offset

C18_Witness ==
    /\ spc = "first"
    /\ (now - (now % ActionRate)) + offset < now
    /\ start = (now - (now % ActionRate)) + offset + ActionRate
    /\ delay = start - now

(***************************************************************************)
(* Properties of websocketListen                                           *)
(***************************************************************************)

Attempts == DOMAIN connects
Failed(n) == Cardinality({j \in 1..n : ~connects[j].ok})
NoReconnect == \A j \in Attempts : ~connects[j].ok
DeclaredDead == Len(cmdlog) > 0
TerminalLog ==
    /\ Len(cmdlog) = 2
    /\ cmdlog[1] = (IF ListenError # Nil THEN "Websocket Error" ELSE "Server closed websocket")
    /\ cmdlog[2] = "Websocket disconneced. Max retries reached."

\* C7: as long as no Connect has succeeded, at most 6 attempts are made and
\* the j-th is made at retry count j - 1; the listener is not declared dead
\* before the 6th failure; and once it is declared dead it has made exactly
\* 6 attempts, has logged the terminal error followed by the max-retries
\* message, and its goroutine is ending or has ended.
C7_BoundedStreamingRetry ==
    /\ NoReconnect =>
          /\ Len(connects) <= MaxRetries + 1
          /\ \A j \in Attempts : connects[j].count = j - 1
          /\ DeclaredDead <=> (Len(connects) = MaxRetries + 1 /\ wsPc \in {"Done", "exited"})
    /\ DeclaredDead => (TerminalLog /\ wsPc \in {"Done", "exited"})

C7_Witness ==
    /\ NoReconnect
    /\ DeclaredDead
    /\ Len(connects) = 6
    /\ wsPc = "exited"

\* C19: the retry count always equals the number of Connect attempts that
\* failed since the listener started, successful reconnects in between
\* notwithstanding; it never decreases; at most 6 attempts fail in total;
\* after the 6th failure the listener makes no further attempt and its next
\* step declares it dead.
C19_RetryCountIsCumulative ==
    /\ websocketRetryCount = Failed(Len(connects))
    /\ \A j \in Attempts : connects[j].count = Failed(j - 1)
    /\ \A j \in Attempts : j > 1 => connects[j].count >= connects[j - 1].count
    /\ Failed(Len(connects)) <= MaxRetries + 1
    /\ Failed(Len(connects)) = MaxRetries + 1 =>
          /\ ~connects[Len(connects)].ok
          /\ wsPc \in {"retry", "Done", "exited"}
          /\ wsPc = "retry" => ENABLED WsRetry /\ RetriesExhausted(websocketRetryCount)
    /\ DeclaredDead => Failed(Len(connects)) = MaxRetries + 1

C19_Witness ==
    /\ DeclaredDead
    /\ ~NoReconnect
    /\ Failed(Len(connects)) = 6
    /\ Len(connects) = 7
    /\ connects[3].ok

\* C8: once the stop channel is closed, a live websocketListen neither
\* enters another time.Sleep nor makes another Connect attempt.
C8_StopEndsRetryLoop ==
    [][(StopChannel = "closed" /\ WsLive) =>
          /\ connects' = connects
          /\ (wsPc # "sleep" => wsPc' # "sleep")]_vars

\* C10 as stated: the delay before each Connect equals the retry count; the
\* first attempt of every episode has delay 0; within an episode each
\* attempt waits strictly longer than the one before.
C10_Original_FirstRetryAlwaysImmediate ==
    \A j \in Attempts :
        /\ connects[j].delay = connects[j].count
        /\ (j = 1 \/ connects[j - 1].episode # connects[j].episode) => connects[j].delay = 0
        /\ (j > 1 /\ connects[j - 1].episode = connects[j].episode) =>
               connects[j].delay > connects[j - 1].delay

\* C10 as amended: the delay before each Connect equals the retry count,
\* which is the number of Connect attempts that have failed so far in the
\* listener's whole life; so the first attempt of an episode is immediate
\* exactly when no attempt has failed before, and within an episode each
\* attempt waits one second longer than the one before.
C10_BackoffEqualsCumulativeRetryCount ==
    \A j \in Attempts :
        /\ connects[j].delay = connects[j].count
        /\ connects[j].delay = Failed(j - 1)
        /\ (j = 1 \/ connects[j - 1].episode # connects[j].episode) =>
               (connects[j].delay = 0 <=> Failed(j - 1) = 0)
        /\ (j > 1 /\ connects[j - 1].episode = connects[j].episode) =>
               /\ ~connects[j - 1].ok
               /\ connects[j].delay = connects[j - 1].delay + 1

C10_Witness ==
    /\ Len(connects) = 5
    /\ connects[3].ok /\ connects[3].delay = 2
    /\ connects[4].episode = 2 /\ connects[4].delay = 2
    /\ connects[5].episode = 2 /\ connects[5].delay = 3

(***************************************************************************)
(* Properties of Cluster.Loadtest                                          *)
(***************************************************************************)

Discovered == 1..Len(loadtestPods)
NoWorkerLaunched == \A p \in 1..MaxWorkers : workers[p] = NoWorker
InBulkLoad == lpc \in {"bulkLoad1", "bulkLoad2", "bulkLoad3", "bulkLoad4"}
BulkLoadSucceeded ==
    /\ Len(bulkLog) = BulkSteps
    /\ \A k \in 1..BulkSteps : bulkLog[k].step = k /\ bulkLog[k].ok
FanOutReached == wgAdded \/ lpc \in {"wgAdd", "go", "sleep", "wait"} \/ ~NoWorkerLaunched

RECURSIVE SumDones(_)
SumDones(n) == IF n = 0 THEN 0 ELSE workers[n].dones + SumDones(n - 1)

\* C2: whenever Loadtest has returned with an empty discovered worker set or
\* an empty discovered target set, it returned a non-nil error, bulkLoad was
\* never called and no worker goroutine was started.
C2_EmptyDiscoveryFailsFast ==
    (lpc = "returned" /\ (Len(loadtestPods) = 0 \/ Len(appPods) = 0)) =>
        /\ ret # Nil
        /\ bulkCalls = 0
        /\ NoWorkerLaunched

\* C3: once Loadtest is at or past wg.Add, or any worker goroutine exists,
\* bulkLoad has been called exactly once and all four of its commands have
\* succeeded; and while bulkLoad is running no worker goroutine exists.
C3_StagingBeforeFanOut ==
    /\ FanOutReached => (bulkCalls = 1 /\ BulkLoadSucceeded)
    /\ InBulkLoad => NoWorkerLaunched

C3_Witness ==
    /\ Len(loadtestPods) = 3
    /\ workers[1].pc = "running"
    /\ BulkLoadSucceeded

\* C4: if a bulkLoad command failed, it is the last command that was run (no
\* later step, no retry of it), no worker goroutine was started, wg.Add never
\* ran, and Loadtest has returned a non-nil error; no step ever runs twice.
C4_StagingFailureAborts ==
    /\ \A k \in 1..Len(bulkLog) :
          ~bulkLog[k].ok =>
              /\ k = Len(bulkLog)
              /\ lpc = "returned"
              /\ ret # Nil
              /\ ~wgAdded
              /\ NoWorkerLaunched
    /\ \A k \in 1..Len(bulkLog) : bulkLog[k].step = k
    /\ bulkCalls <= 1

C4_Witness ==
    /\ Len(bulkLog) = 3
    /\ ~bulkLog[3].ok
    /\ lpc = "returned"

\* C5: a worker goroutine exists only after wg.Add(len(loadtestPods)); every
\* pod is launched at most once and calls wg.Done at most once; the counter
\* equals the number of pods minus the Done calls made; and when Loadtest has
\* returned from the fan-out every discovered pod was launched exactly once,
\* has ended and has called Done exactly once, and no other pod was launched.
C5_OneInvocationPerWorkerAndJoin ==
    /\ ~NoWorkerLaunched => wgAdded
    /\ \A p \in 1..MaxWorkers : workers[p].launches <= 1 /\ workers[p].dones <= 1
    /\ wgAdded => wg = Len(loadtestPods) - SumDones(MaxWorkers)
    /\ lpc \in {"wait", "returned"} /\ wgAdded =>
          \A p \in Discovered : workers[p].launches = 1
    /\ lpc = "returned" /\ wgAdded =>
          /\ \A p \in Discovered : workers[p].pc = "exited" /\ workers[p].dones = 1
          /\ \A p \in (1..MaxWorkers) \ Discovered : workers[p] = NoWorker

C5_Witness ==
    /\ lpc = "returned"
    /\ wgAdded
    /\ Len(loadtestPods) = 3
    /\ \A p \in Discovered : workers[p].runs = 1

\* C6: a worker goroutine that has ended has called wg.Done exactly once
\* whether loadtestPod failed or not; once the loop is over every discovered
\* pod has been launched whatever the outcomes of the others; and a Loadtest
\* that returned from the fan-out returned nil with every worker ended.
C6_WorkerFailureIsolation ==
    /\ \A p \in 1..MaxWorkers : workers[p].pc = "exited" => workers[p].dones = 1
    /\ lpc \in {"wait", "returned"} /\ wgAdded =>
          \A p \in Discovered : workers[p].pc # "none"
    /\ lpc = "returned" /\ wgAdded =>
          /\ ret = Nil
          /\ \A p \in Discovered : workers[p].pc = "exited"

C6_Witness ==
    /\ lpc = "returned"
    /\ ret = Nil
    /\ Len(loadtestPods) = 3
    /\ workers[1].err # Nil /\ workers[1].runs = 1
    /\ workers[2].err # Nil /\ workers[2].runs = 0
    /\ workers[3].err = Nil /\ workers[3].runs = 1


\* C13: a worker goroutine that has called loadtestPod passed the shared
\* results stream exactly when it is the one for the first discovered pod.
C13_OnlyFirstWorkerMirrored ==
    \A p \in 1..MaxWorkers :
        workers[p].mirror # "unset" => (workers[p].mirror = "resultsOutput" <=> p = 1)

\* C14: pods are launched in discovery order, each go statement at least
\* StaggerSeconds after the previous one; the go statement and the end of the
\* sleep are enabled whatever the state of the workers already launched; and
\* every launched worker can take its next step whatever the others do.
C14_StaggeredLaunch ==
    /\ \A p \in 1..(MaxWorkers - 1) :
          launchedAt[p + 1] >= 0 =>
              /\ launchedAt[p] >= 0
              /\ launchedAt[p + 1] - launchedAt[p] >= StaggerSeconds
    /\ \A p \in 1..MaxWorkers : launchedAt[p] >= 0 <=> workers[p].pc # "none"
    /\ lpc = "go" => ENABLED GoWorker
    /\ (lpc = "sleep" /\ clock - sleepStart >= StaggerSeconds) => ENABLED SleepDone
    /\ \A p \in 1..MaxWorkers :
          /\ workers[p].pc = "spawned" => ENABLED WorkerStart(p, "ok")
          /\ workers[p].pc = "running" => ENABLED WorkerRunEnds(p, TRUE)
          /\ workers[p].pc = "finished" => ENABLED WorkerDone(p)

C14_Witness ==
    /\ launchedAt[1] = 0
    /\ launchedAt[2] = 10
    /\ launchedAt[3] = 25
    /\ workers[1].pc = "running"
    /\ workers[2].pc = "exited"
    /\ workers[3].pc = "spawned"

\* C17: the commands bulkLoad has run are steps 1, 2, 3, ... in this order,
\* each one after the previous one succeeded; steps 1 and 2 address the
\* first discovered loadtest pod and steps 3 and 4 the first discovered app
\* pod, and no step addresses any other pod.
C17_BulkLoadOrder ==
    \A k \in 1..Len(bulkLog) :
        /\ k <= BulkSteps
        /\ bulkLog[k].step = k
        /\ k > 1 => bulkLog[k - 1].ok
        /\ bulkLog[k].on = (IF k <= 2 THEN [kind |-> "loadtest", pod |-> Head(loadtestPods)]
                                     ELSE [kind |-> "app", pod |-> Head(appPods)])

C17_Witness ==
    /\ Len(bulkLog) = 4
    /\ bulkLog[4].ok
    /\ Len(loadtestPods) = 3
    /\ Len(appPods) = 2

====
